---- MODULE Spec2Model ----
(***************************************************************************)
(* State-machine model of the reliable datagram transport of               *)
(* src/udpclient.py (UDPClient: main thread and receiver thread) and       *)
(* src/udpserver.py (UDPServer), and of the packet framer both share.      *)
(*                                                                         *)
(* Time is a clock `now` counted in ticks of 10 ms (TickLen hundredths of  *)
(* a millisecond). It advances where the main thread sleeps, by the length *)
(* of the sleep; every other statement takes no time. RTT samples and the  *)
(* timeout are kept in hundredths of a millisecond, the timeout as an      *)
(* exact fraction num/den.                                                 *)
(* The network is a pair of datagram sets: a datagram once sent may be     *)
(* delivered any number of times, in any order, or never (UDP).            *)
(***************************************************************************)
EXTENDS Integers, Sequences, FiniteSets, TLC

\* ---------------------------------------------------------------- bounds
\* Packets sent in the run with an outage and in the run that fills the
\* window, the payload size of the latter, the last tick of the clock, the
\* rounds of the drain loop (max_wait_time * 10 in the code) and the tick at
\* which the outage ends.
MaxPackets == 2
MaxPacketsWin == 7
WinPayload == 70
MaxTicks == 232
MaxWait == 23
OutageEnd == 232

\* ------------------------------------------------- program constants
SYN == 1
ACK == 2
FIN == 4
DATA == 8
RST == 16

CLOSED == 0
SYN_SENT == 1
ESTABLISHED == 2
FIN_WAIT == 3

SrvSYN_RECEIVED == 2
SrvESTABLISHED == 3

window_size == 400
initial_timeout == 30000
min_timeout == 10000
min_rtt == 1
MaxRetransmit == 5
HeaderLen == 11

\* Length of one clock tick (10 ms) in hundredths of a millisecond, and the
\* two sleeps of send_data in ticks: time.sleep(0.01) and time.sleep(0.1).
TickLen == 1000
ShortSleep == 1
LongSleep == 10

\* Inputs of the environment.
ClientISNs == {1000}
ServerISNs == {1000, 9999}
MinData == 40
MaxData == 80
XByte == 88
DataSizes == {MinData, MaxData}
DropRates == {50}
RandomDraws == {0, 99}
Peer == "c"

\* ---------------------------------------------------------------- helpers
HasFlag(flags, bit) == (flags \div bit) % 2 = 1

Pkt(f, s, a, l) == [flags |-> f, seq |-> s, ack |-> a, len |-> l]

\* A datagram shorter than the 11-byte header, for which parse_packet
\* returns five None.
ShortDatagram == [short |-> TRUE]

IsShort(d) == "short" \in DOMAIN d

Put(f, k, v) == [x \in (DOMAIN f) \cup {k} |-> IF x = k THEN v ELSE f[x]]

Del(f, k) == [x \in (DOMAIN f) \ {k} |-> f[x]]

Empty == [x \in {} |-> 0]

Min(S) == CHOOSE x \in S : \A y \in S : x <= y

RECURSIVE SortedSeq(_)
SortedSeq(S) == IF S = {} THEN <<>> ELSE <<Min(S)>> \o SortedSeq(S \ {Min(S)})

RECURSIVE SumSeq(_)
SumSeq(s) == IF s = <<>> THEN 0 ELSE Head(s) + SumSeq(Tail(s))

\* ------------------------------------------------------------------ state
VARIABLES
  state, initial_seq_num, ack_num, base, next_seq_num,
  total_bytes_sent, packets, packet_times, retransmit_count,
  rtt_list, timeout_interval, total_packets, retransmitted_packets,
  expected_packets, lock,
  mt, rt,
  connections, drop_rate, outage, sizes,
  c2s, s2c,
  now, tx,
  fr,
  rrpc

cfields == <<state, initial_seq_num, ack_num, base, next_seq_num,
             total_bytes_sent, packets, packet_times, retransmit_count,
             rtt_list, timeout_interval, total_packets, retransmitted_packets,
             expected_packets, lock>>

vars == <<cfields, mt, rt, connections, drop_rate, outage, sizes, c2s, s2c, now, tx, fr, rrpc>>

\* The main thread's locals (run, connect, send_data, retransmit_packets,
\* disconnect, print_statistics); scan_timeout (the timeout the scan compared
\* with) and abandoned (the packets removed as failed so far) are history.
MainInit ==
  [pc |-> "start", packet_id |-> 1, data_size |-> 0, accepted |-> FALSE,
   wait_count |-> 0, caller |-> "send", current_time |-> 0,
   scan_timeout |-> [num |-> initial_timeout, den |-> 1],
   retransmit_list |-> <<>>, failed_packets |-> <<>>,
   packet_info |-> [id |-> 0, length |-> 0, start_byte |-> 0, end_byte |-> 0],
   retry_count |-> 0, failed_count |-> 0, success_count |-> 0,
   fin_acked |-> FALSE, abandoned |-> 0, error |-> "none"]

\* The receiver thread's locals (receive_acks, handle_ack); history: the
\* number of outstanding packets the ACK covers and the number of RTT samples
\* when handle_ack was entered.
RecvInit ==
  [pc |-> "idle", ack |-> 0, it_keys |-> <<>>, it_size |-> 0,
   keys_to_remove |-> <<>>, entry_acked |-> 0, entry_samples |-> 0,
   error |-> "none"]

FramerIdle == [stage |-> "off"]

\* No reverse-RPC session.
RrpcOff == [cpc |-> "off", spc |-> "off"]

\* UDPClient.__init__ and UDPServer.__init__, the server's drop rate being
\* one of `rates`.
InitFor(n, sz, o, rates) ==
  /\ state = CLOSED
  /\ initial_seq_num \in ClientISNs
  /\ ack_num = 0
  /\ base = initial_seq_num
  /\ next_seq_num = initial_seq_num
  /\ total_bytes_sent = 0
  /\ packets = Empty
  /\ packet_times = Empty
  /\ retransmit_count = Empty
  /\ rtt_list = <<>>
  /\ timeout_interval = [num |-> initial_timeout, den |-> 1]
  /\ total_packets = 0
  /\ retransmitted_packets = 0
  /\ expected_packets = n
  /\ lock = "free"
  /\ mt = MainInit
  /\ rt = RecvInit
  /\ connections = Empty
  /\ drop_rate \in rates
  /\ outage = o
  /\ sizes = sz
  /\ c2s = {}
  /\ s2c = {}
  /\ now = 0
  /\ tx = Empty

InitWith(n, sz, o) == InitFor(n, sz, o, DropRates)

\* The runs explored: one packet over a network that delivers at any time;
\* MaxPackets packets over a network that delivers nothing between the first
\* tick and OutageEnd; MaxPacketsWin packets of WinPayload bytes over a network
\* that delivers nothing after the first tick.
NoOutage == [from |-> 0, to |-> 0]

LongOutage == [from |-> 1, to |-> OutageEnd]

Blackout == [from |-> 1, to |-> MaxTicks + 1]

Init ==
  /\ fr = FramerIdle
  /\ rrpc = RrpcOff
  /\ \/ InitWith(1, DataSizes, NoOutage)
     \/ InitWith(MaxPackets, {MinData}, LongOutage)
     \/ InitWith(MaxPacketsWin, {WinPayload}, Blackout)

\* Datagrams are delivered only while the network is up.
LinkUp == now < outage.from \/ now >= outage.to

\* ------------------------------------------------ client: connection setup
\* connect(): the SYN is sent; the state field is not changed here.
ConnectSendSyn ==
  /\ mt.pc = "start"
  /\ c2s' = c2s \cup {Pkt(SYN, initial_seq_num, 0, 0)}
  /\ mt' = [mt EXCEPT !.pc = "conn_wait"]
  /\ UNCHANGED <<cfields, rt, connections, drop_rate, outage, sizes, s2c, now, tx, fr, rrpc>>

\* A faulty connect() that takes every well-formed reply for SYN|ACK.
ConnectRecvAnyReply(d) ==
  /\ mt.pc = "conn_wait"
  /\ IF ~IsShort(d)
     THEN /\ c2s' = c2s \cup {Pkt(ACK, initial_seq_num + 1, d.seq + 1, 0)}
          /\ state' = ESTABLISHED
          /\ ack_num' = d.seq + 1
          /\ next_seq_num' = initial_seq_num + 1
          /\ base' = initial_seq_num + 1
          /\ mt' = [mt EXCEPT !.pc = "sd_start"]
     ELSE /\ mt' = [mt EXCEPT !.pc = "closing"]
          /\ UNCHANGED <<c2s, state, ack_num, next_seq_num, base>>
  /\ UNCHANGED <<initial_seq_num, total_bytes_sent, packets, packet_times,
                 retransmit_count, rtt_list, timeout_interval, total_packets,
                 retransmitted_packets, expected_packets, lock,
                 rt, connections, drop_rate, outage, sizes, now, tx, fr, rrpc>>

\* connect(): the datagram d is read; SYN|ACK completes the handshake, anything
\* else makes connect return False, and run() then only closes the socket.
ConnectRecvOn(d) ==
  /\ mt.pc = "conn_wait"
  /\ IF ~IsShort(d) /\ HasFlag(d.flags, SYN) /\ HasFlag(d.flags, ACK)
     THEN /\ c2s' = c2s \cup {Pkt(ACK, initial_seq_num + 1, d.seq + 1, 0)}
          /\ state' = ESTABLISHED
          /\ ack_num' = d.seq + 1
          /\ next_seq_num' = initial_seq_num + 1
          /\ base' = initial_seq_num + 1
          /\ mt' = [mt EXCEPT !.pc = "sd_start"]
     ELSE /\ mt' = [mt EXCEPT !.pc = "closing"]
          /\ UNCHANGED <<c2s, state, ack_num, next_seq_num, base>>
  /\ UNCHANGED <<initial_seq_num, total_bytes_sent, packets, packet_times,
                 retransmit_count, rtt_list, timeout_interval, total_packets,
                 retransmitted_packets, expected_packets, lock,
                 rt, connections, drop_rate, outage, sizes, now, tx, fr, rrpc>>

ConnectRecv ==
  /\ LinkUp
  /\ \E d \in s2c : ConnectRecvOn(d)
  /\ UNCHANGED s2c

\* connect(): socket.timeout.
ConnectTimeout ==
  /\ mt.pc = "conn_wait"
  /\ mt' = [mt EXCEPT !.pc = "closing"]
  /\ UNCHANGED <<cfields, rt, connections, drop_rate, outage, sizes, c2s, s2c, now, tx, fr, rrpc>>

\* send_data(): the receiver thread is started.
SendDataStart ==
  /\ mt.pc = "sd_start"
  /\ mt' = [mt EXCEPT !.pc = "sd_loop", !.packet_id = 1]
  /\ rt' = [rt EXCEPT !.pc = "r_loop"]
  /\ UNCHANGED <<cfields, connections, drop_rate, outage, sizes, c2s, s2c, now, tx, fr, rrpc>>

\* ------------------------------------------------------ client: send_packet
\* The admission test of send_packet.
WindowFull == (next_seq_num - base) >= window_size

\* One iteration of send_data's admission loop up to the call of
\* retransmit_packets: a payload size is drawn and send_packet runs under the
\* lock.
SendPacket ==
  /\ mt.pc = "sd_loop"
  /\ mt.packet_id <= expected_packets
  /\ lock = "free"
  /\ \E size \in sizes :
       IF WindowFull
       THEN /\ now + ShortSleep <= MaxTicks
            /\ now' = now + ShortSleep
            /\ mt' = [mt EXCEPT !.pc = "rt_begin", !.caller = "send",
                                !.data_size = size, !.accepted = FALSE]
            /\ UNCHANGED <<c2s, tx, packets, packet_times, retransmit_count,
                           next_seq_num, total_bytes_sent, total_packets>>
       ELSE /\ UNCHANGED now
            /\ c2s' = c2s \cup {Pkt(DATA, next_seq_num, ack_num, size)}
            /\ tx' = Put(tx, next_seq_num, 1)
            /\ packets' = Put(packets, next_seq_num,
                              [id |-> mt.packet_id, length |-> size,
                               start_byte |-> next_seq_num,
                               end_byte |-> next_seq_num + size - 1])
            /\ packet_times' = Put(packet_times, next_seq_num, now)
            /\ retransmit_count' = Put(retransmit_count, next_seq_num, 0)
            /\ next_seq_num' = next_seq_num + size
            /\ total_bytes_sent' = total_bytes_sent + size
            /\ total_packets' = total_packets + 1
            /\ mt' = [mt EXCEPT !.pc = "rt_begin", !.caller = "send",
                                !.data_size = size, !.accepted = TRUE,
                                !.packet_id = mt.packet_id + 1]
  /\ UNCHANGED <<state, initial_seq_num, ack_num, base, rtt_list,
                 timeout_interval, retransmitted_packets, expected_packets,
                 lock, rt, connections, drop_rate, outage, sizes, s2c, fr, rrpc>>

\* ----------------------------------------------- client: retransmit_packets
\* current_time - send_time > timeout_interval, the timeout being num/den.
TimedOut(cur, sent, to) == (cur - sent) * TickLen * to.den > to.num

\* The keys the scan under the lock puts on retransmit_list.
ScanList(cur) ==
  SortedSeq({k \in DOMAIN packet_times :
               TimedOut(cur, packet_times[k], timeout_interval)})

\* A faulty retry limit test that gives up one retransmission early.
RetryExhaustedEarly(count) == count >= MaxRetransmit - 1

\* The retry limit test of the retransmission loop.
RetryExhausted(count) == count >= MaxRetransmit

\* Where the main thread stands once the head of a list is done: the next
\* element of retransmit_list, then of failed_packets, then the return to the
\* loop of send_data that called retransmit_packets (the admission loop,
\* which ends after expected_packets packets, or the drain loop, which counts
\* the round).
\* The sleep that follows a step leaving the main thread's locals as m:
\* time.sleep(0.01) closes each round of the admission loop.
SleepAfter(m) ==
  IF m.retransmit_list = <<>> /\ m.failed_packets = <<>> /\ m.caller = "send"
  THEN ShortSleep ELSE 0

\* The locals of send_packet and retransmit_packets end with the call.
Returned(m) ==
  [m EXCEPT !.data_size = MainInit.data_size, !.accepted = MainInit.accepted,
            !.current_time = MainInit.current_time,
            !.scan_timeout = MainInit.scan_timeout,
            !.packet_info = MainInit.packet_info,
            !.retry_count = MainInit.retry_count]

Advance(m) ==
  IF m.retransmit_list # <<>> THEN [m EXCEPT !.pc = "rt_loop"]
  ELSE IF m.failed_packets # <<>> THEN [m EXCEPT !.pc = "rt_fail"]
  ELSE IF m.caller = "send"
  THEN IF m.packet_id <= expected_packets
       THEN [Returned(m) EXCEPT !.pc = "sd_loop"]
       ELSE [Returned(m) EXCEPT !.pc = "dr_loop", !.wait_count = 0]
  ELSE [Returned(m) EXCEPT !.pc = "dr_loop", !.wait_count = m.wait_count + 1]

\* The main thread goes on from locals m, sleeping where the code sleeps.
Resume(m) ==
  /\ now + SleepAfter(m) <= MaxTicks
  /\ now' = now + SleepAfter(m)
  /\ mt' = Advance(m)

\* retransmit_packets(): current_time is read before the lock is taken.
RtBegin ==
  /\ mt.pc = "rt_begin"
  /\ mt' = [mt EXCEPT !.pc = "rt_scan", !.current_time = now,
                      !.retransmit_list = <<>>, !.failed_packets = <<>>]
  /\ UNCHANGED <<cfields, rt, connections, drop_rate, outage, sizes, c2s, s2c, now, tx, fr, rrpc>>

\* retransmit_packets(): the scan of packet_times, under the lock.
RtScan ==
  /\ mt.pc = "rt_scan"
  /\ lock = "free"
  /\ Resume([mt EXCEPT !.retransmit_list = ScanList(mt.current_time),
                       !.scan_timeout = timeout_interval])
  /\ UNCHANGED <<cfields, rt, connections, drop_rate, outage, sizes, c2s, s2c, tx, fr, rrpc>>

\* The statements below run without the lock, one action per statement that
\* reads or writes the shared maps.
\* `if seq_num in self.packets`
RtCheck ==
  /\ mt.pc = "rt_loop"
  /\ IF Head(mt.retransmit_list) \in DOMAIN packets
     THEN mt' = [mt EXCEPT !.pc = "rt_read"] /\ UNCHANGED now
     ELSE Resume([mt EXCEPT !.retransmit_list = Tail(mt.retransmit_list)])
  /\ UNCHANGED <<cfields, rt, connections, drop_rate, outage, sizes, c2s, s2c, tx, fr, rrpc>>

\* `packet_info = self.packets[seq_num]`: KeyError when the receiver has
\* removed the packet since the test; run() catches it and closes the socket.
RtRead ==
  /\ mt.pc = "rt_read"
  /\ mt' = IF Head(mt.retransmit_list) \in DOMAIN packets
           THEN [mt EXCEPT !.pc = "rt_count",
                           !.packet_info = packets[Head(mt.retransmit_list)]]
           ELSE [mt EXCEPT !.pc = "closing", !.error = "KeyError"]
  /\ UNCHANGED <<cfields, rt, connections, drop_rate, outage, sizes, c2s, s2c, now, tx, fr, rrpc>>

\* `retry_count = self.retransmit_count.get(seq_num, 0)` and the limit test.
RtCount ==
  /\ mt.pc = "rt_count"
  /\ LET s == Head(mt.retransmit_list)
         c == IF s \in DOMAIN retransmit_count THEN retransmit_count[s] ELSE 0
     IN  IF RetryExhausted(c)
         THEN Resume([mt EXCEPT !.retry_count = c,
                         !.failed_packets = Append(mt.failed_packets, s),
                         !.retransmit_list = Tail(mt.retransmit_list)])
         ELSE mt' = [mt EXCEPT !.pc = "rt_send", !.retry_count = c]
              /\ UNCHANGED now
  /\ UNCHANGED <<cfields, rt, connections, drop_rate, outage, sizes, c2s, s2c, tx, fr, rrpc>>

\* The packet is sent again and its send time overwritten.
RtSend ==
  /\ mt.pc = "rt_send"
  /\ LET s == Head(mt.retransmit_list)
     IN  /\ c2s' = c2s \cup {Pkt(DATA, s, ack_num, mt.packet_info.length)}
         /\ tx' = Put(tx, s, tx[s] + 1)
         /\ packet_times' = Put(packet_times, s, mt.current_time)
  /\ mt' = [mt EXCEPT !.pc = "rt_inc"]
  /\ UNCHANGED <<state, initial_seq_num, ack_num, base, next_seq_num,
                 total_bytes_sent, packets, retransmit_count, rtt_list,
                 timeout_interval, total_packets, retransmitted_packets,
                 expected_packets, lock, rt, connections, drop_rate, outage, sizes, s2c,
                 now, fr, rrpc>>

\* `self.retransmit_count[seq_num] = retry_count + 1`
RtInc ==
  /\ mt.pc = "rt_inc"
  /\ retransmit_count' = Put(retransmit_count, Head(mt.retransmit_list),
                             mt.retry_count + 1)
  /\ retransmitted_packets' = retransmitted_packets + 1
  /\ Resume([mt EXCEPT !.retransmit_list = Tail(mt.retransmit_list)])
  /\ UNCHANGED <<state, initial_seq_num, ack_num, base, next_seq_num,
                 total_bytes_sent, packets, packet_times, rtt_list,
                 timeout_interval, total_packets, expected_packets, lock,
                 rt, connections, drop_rate, outage, sizes, c2s, s2c, tx, fr, rrpc>>

\* `if seq_num in self.packets` of the loop over failed_packets.
FailCheck ==
  /\ mt.pc = "rt_fail"
  /\ IF Head(mt.failed_packets) \in DOMAIN packets
     THEN mt' = [mt EXCEPT !.pc = "rt_del"] /\ UNCHANGED now
     ELSE Resume([mt EXCEPT !.failed_packets = Tail(mt.failed_packets)])
  /\ UNCHANGED <<cfields, rt, connections, drop_rate, outage, sizes, c2s, s2c, tx, fr, rrpc>>

\* The failed packet is removed from the three maps (KeyError when the
\* receiver has removed it since the test).
FailDel ==
  /\ mt.pc = "rt_del"
  /\ LET s == Head(mt.failed_packets)
     IN  IF s \in DOMAIN packets
         THEN /\ packets' = Del(packets, s)
              /\ packet_times' = Del(packet_times, s)
              /\ retransmit_count' = Del(retransmit_count, s)
              /\ Resume([mt EXCEPT !.failed_packets = Tail(mt.failed_packets),
                                    !.abandoned = mt.abandoned + 1])
         ELSE /\ mt' = [mt EXCEPT !.pc = "closing", !.error = "KeyError"]
              /\ UNCHANGED <<packets, packet_times, retransmit_count, now>>
  /\ UNCHANGED <<state, initial_seq_num, ack_num, base, next_seq_num,
                 total_bytes_sent, rtt_list, timeout_interval, total_packets,
                 retransmitted_packets, expected_packets, lock,
                 rt, connections, drop_rate, outage, sizes, c2s, s2c, tx, fr, rrpc>>

\* ------------------------------------------------- client: the drain phase
\* `while self.base < self.next_seq_num and wait_count < max_wait_time * 10`
DrainCheck ==
  /\ mt.pc = "dr_loop"
  /\ IF base < next_seq_num /\ mt.wait_count < MaxWait
     THEN /\ now + LongSleep <= MaxTicks
          /\ now' = now + LongSleep
          /\ mt' = [mt EXCEPT !.pc = "rt_begin", !.caller = "drain"]
     ELSE /\ mt' = [mt EXCEPT !.pc = "dr_report"]
          /\ UNCHANGED now
  /\ UNCHANGED <<cfields, rt, connections, drop_rate, outage, sizes, c2s, s2c, tx, fr, rrpc>>

\* The report of unacknowledged packets (under the lock) and the return of
\* send_data.
DrainReport ==
  /\ mt.pc = "dr_report"
  /\ base >= next_seq_num \/ lock = "free"
  /\ mt' = [mt EXCEPT !.pc = "disc"]
  /\ UNCHANGED <<cfields, rt, connections, drop_rate, outage, sizes, c2s, s2c, now, tx, fr, rrpc>>

\* ----------------------------------------------------- client: disconnect
DisconnectSendFin ==
  /\ mt.pc = "disc"
  /\ IF state = ESTABLISHED
     THEN /\ c2s' = c2s \cup {Pkt(FIN, next_seq_num, ack_num, 0)}
          /\ mt' = [mt EXCEPT !.pc = "disc_wait"]
     ELSE /\ mt' = [mt EXCEPT !.pc = "stats"]
          /\ UNCHANGED c2s
  /\ UNCHANGED <<cfields, rt, connections, drop_rate, outage, sizes, s2c, now, tx, fr, rrpc>>

\* disconnect(): a datagram is read; only FIN|ACK is answered by the final ACK.
\* For a datagram that parse_packet rejects, `flags & FIN` raises TypeError,
\* which run() catches: the rest of disconnect and print_statistics are
\* skipped.
DisconnectRecv ==
  /\ mt.pc = "disc_wait"
  /\ LinkUp
  /\ \E d \in s2c :
       IF IsShort(d)
       THEN /\ mt' = [mt EXCEPT !.pc = "closing", !.error = "TypeError"]
            /\ UNCHANGED <<c2s, state>>
       ELSE IF HasFlag(d.flags, FIN) /\ HasFlag(d.flags, ACK)
       THEN /\ c2s' = c2s \cup {Pkt(ACK, next_seq_num + 1, d.seq + 1, 0)}
            /\ mt' = [mt EXCEPT !.pc = "stats", !.fin_acked = TRUE]
            /\ state' = CLOSED
       ELSE /\ mt' = [mt EXCEPT !.pc = "stats"]
            /\ state' = CLOSED
            /\ UNCHANGED c2s
  /\ UNCHANGED <<initial_seq_num, ack_num, base, next_seq_num,
                 total_bytes_sent, packets, packet_times, retransmit_count,
                 rtt_list, timeout_interval, total_packets,
                 retransmitted_packets, expected_packets, lock,
                 rt, connections, drop_rate, outage, sizes, s2c, now, tx, fr, rrpc>>

\* disconnect(): socket.timeout.
DisconnectTimeout ==
  /\ mt.pc = "disc_wait"
  /\ state' = CLOSED
  /\ mt' = [mt EXCEPT !.pc = "stats"]
  /\ UNCHANGED <<initial_seq_num, ack_num, base, next_seq_num,
                 total_bytes_sent, packets, packet_times, retransmit_count,
                 rtt_list, timeout_interval, total_packets,
                 retransmitted_packets, expected_packets, lock,
                 rt, connections, drop_rate, outage, sizes, c2s, s2c, now, tx, fr, rrpc>>

\* print_statistics(): the counts are taken under the lock.
PrintStatistics ==
  /\ mt.pc = "stats"
  /\ lock = "free"
  /\ mt' = [mt EXCEPT !.pc = "closing",
                      !.failed_count =
                         Cardinality({k \in DOMAIN packets : k >= base}),
                      !.success_count = Len(rtt_list)]
  /\ UNCHANGED <<cfields, rt, connections, drop_rate, outage, sizes, c2s, s2c, now, tx, fr, rrpc>>

\* run(): `finally: self.socket.close()`.
SocketClose ==
  /\ mt.pc = "closing"
  /\ mt' = [mt EXCEPT !.pc = "closed"]
  /\ UNCHANGED <<cfields, rt, connections, drop_rate, outage, sizes, c2s, s2c, now, tx, fr, rrpc>>

\* main() returns: the process ends and its daemon thread with it.
ProcessExit ==
  /\ mt.pc = "closed"
  /\ mt' = [mt EXCEPT !.pc = "done"]
  /\ UNCHANGED <<cfields, rt, connections, drop_rate, outage, sizes, c2s, s2c, now, tx, fr, rrpc>>

\* ------------------------------------------------- client: receiver thread
\* The receiver thread back in receive_acks at `p`, handle_ack's locals gone.
RecvAt(p, e) == [RecvInit EXCEPT !.pc = p, !.error = e]

\* `while self.state == ESTABLISHED`
RecvLoopCheck ==
  /\ rt.pc = "r_loop"
  /\ mt.pc # "done"
  /\ rt' = IF state = ESTABLISHED
           THEN [rt EXCEPT !.pc = "r_recv"]
           ELSE [rt EXCEPT !.pc = "r_done"]
  /\ UNCHANGED <<cfields, mt, connections, drop_rate, outage, sizes, c2s, s2c, now, tx, fr, rrpc>>

\* recvfrom returns a datagram; one with the ACK flag goes to handle_ack.
RecvDatagramOn(d) ==
  /\ rt.pc = "r_recv"
  /\ mt.pc \notin {"closed", "done"}
  /\ rt' = IF ~IsShort(d) /\ HasFlag(d.flags, ACK)
           THEN [rt EXCEPT !.pc = "ha_enter", !.ack = d.ack]
           ELSE [rt EXCEPT !.pc = "r_loop"]
  /\ UNCHANGED <<cfields, mt, connections, drop_rate, outage, sizes, c2s, now, tx, fr, rrpc>>

RecvDatagram ==
  /\ LinkUp
  /\ \E d \in s2c : RecvDatagramOn(d)
  /\ UNCHANGED s2c

\* recvfrom raises socket.timeout: continue.
RecvTimeout ==
  /\ rt.pc = "r_recv"
  /\ mt.pc \notin {"closed", "done"}
  /\ rt' = [rt EXCEPT !.pc = "r_loop"]
  /\ UNCHANGED <<cfields, mt, connections, drop_rate, outage, sizes, c2s, s2c, now, tx, fr, rrpc>>

\* recvfrom on the socket run() has closed raises: break.
RecvSocketError ==
  /\ rt.pc = "r_recv"
  /\ mt.pc = "closed"
  /\ rt' = RecvAt("r_done", "OSError")
  /\ UNCHANGED <<cfields, mt, connections, drop_rate, outage, sizes, c2s, s2c, now, tx, fr, rrpc>>

\* A faulty stale test that lets every ACK through.
StaleAckDropped(a) == FALSE

\* The stale test of handle_ack.
StaleAck(a) == a < base

\* The RTT sample handle_ack takes for a packet sent at `sent`.
RttSample(t, sent) ==
  IF (t - sent) * TickLen < min_rtt THEN min_rtt ELSE (t - sent) * TickLen

\* A faulty update_timeout_interval that leaves out the 100 ms floor.
NewTimeoutNoFloor(l) == [num |-> 5 * SumSeq(l), den |-> Len(l)]

\* update_timeout_interval: the timeout for the sample list `l`.
NewTimeout(l) ==
  IF 5 * SumSeq(l) < min_timeout * Len(l)
  THEN [num |-> min_timeout, den |-> 1]
  ELSE [num |-> 5 * SumSeq(l), den |-> Len(l)]

\* The retirement test of handle_ack.
Acked(info, a) == info.end_byte < a

\* handle_ack: the lock is taken; a stale ACK returns at once, any other
\* moves base and starts the iteration over self.packets.
HandleAckEnter ==
  /\ rt.pc = "ha_enter"
  /\ mt.pc # "done"
  /\ lock = "free"
  /\ IF StaleAck(rt.ack)
     THEN /\ rt' = RecvAt("r_loop", "none")
          /\ UNCHANGED <<base, lock>>
     ELSE /\ base' = rt.ack
          /\ lock' = "recv"
          /\ rt' = [rt EXCEPT !.pc = "ha_iter",
                              !.entry_acked =
                                 Cardinality({k \in DOMAIN packets :
                                                Acked(packets[k], rt.ack)}),
                              !.entry_samples = Len(rtt_list),
                              !.it_keys = SortedSeq(DOMAIN packets),
                              !.it_size = Cardinality(DOMAIN packets),
                              !.keys_to_remove = <<>>]
  /\ UNCHANGED <<state, initial_seq_num, ack_num, next_seq_num,
                 total_bytes_sent, packets, packet_times, retransmit_count,
                 rtt_list, timeout_interval, total_packets,
                 retransmitted_packets, expected_packets,
                 mt, connections, drop_rate, outage, sizes, c2s, s2c, now, tx, fr, rrpc>>

\* handle_ack: one step of `for seq_num, packet_info in self.packets.items()`.
\* The iterator raises RuntimeError when the dictionary's size has changed
\* since the loop started; receive_acks catches it and ends the thread. When
\* the iteration is over and nothing is to be removed, handle_ack returns.
HandleAckNext ==
  /\ rt.pc = "ha_iter"
  /\ mt.pc # "done"
  /\ IF Cardinality(DOMAIN packets) # rt.it_size
     THEN /\ rt' = RecvAt("r_done", "RuntimeError")
          /\ lock' = "free"
          /\ UNCHANGED <<rtt_list, timeout_interval>>
     ELSE IF rt.it_keys = <<>>
     THEN /\ rt' = IF rt.keys_to_remove = <<>>
                   THEN RecvAt("r_loop", "none")
                   ELSE [rt EXCEPT !.pc = "ha_del"]
          /\ lock' = IF rt.keys_to_remove = <<>> THEN "free" ELSE lock
          /\ UNCHANGED <<rtt_list, timeout_interval>>
     ELSE LET k == Head(rt.it_keys)
          IN  /\ IF Acked(packets[k], rt.ack)
                 THEN /\ rt' = [rt EXCEPT !.it_keys = Tail(rt.it_keys),
                                  !.keys_to_remove = Append(rt.keys_to_remove, k)]
                      /\ IF k \in DOMAIN packet_times
                         THEN /\ rtt_list' =
                                   Append(rtt_list,
                                          RttSample(now, packet_times[k]))
                              /\ timeout_interval' = NewTimeout(rtt_list')
                         ELSE UNCHANGED <<rtt_list, timeout_interval>>
                 ELSE /\ rt' = [rt EXCEPT !.it_keys = Tail(rt.it_keys)]
                      /\ UNCHANGED <<rtt_list, timeout_interval>>
              /\ UNCHANGED lock
  /\ UNCHANGED <<state, initial_seq_num, ack_num, base, next_seq_num,
                 total_bytes_sent, packets, packet_times, retransmit_count,
                 total_packets, retransmitted_packets, expected_packets,
                 mt, connections, drop_rate, outage, sizes, c2s, s2c, now, tx, fr, rrpc>>

\* handle_ack: one step of `for seq_num in keys_to_remove` (KeyError when the
\* main thread has removed the packet meanwhile); the lock is released after
\* the last one.
HandleAckDel ==
  /\ rt.pc = "ha_del"
  /\ mt.pc # "done"
  /\ LET k == Head(rt.keys_to_remove)
         last == Tail(rt.keys_to_remove) = <<>>
     IN  IF k \in DOMAIN packets
         THEN /\ packets' = Del(packets, k)
              /\ packet_times' = Del(packet_times, k)
              /\ retransmit_count' = Del(retransmit_count, k)
              /\ rt' = IF last
                       THEN RecvAt("r_loop", "none")
                       ELSE [rt EXCEPT !.keys_to_remove =
                                          Tail(rt.keys_to_remove)]
              /\ lock' = IF last THEN "free" ELSE lock
         ELSE /\ rt' = RecvAt("r_done", "KeyError")
              /\ lock' = "free"
              /\ UNCHANGED <<packets, packet_times, retransmit_count>>
  /\ UNCHANGED <<state, initial_seq_num, ack_num, base, next_seq_num,
                 total_bytes_sent, rtt_list, timeout_interval, total_packets,
                 retransmitted_packets, expected_packets,
                 mt, connections, drop_rate, outage, sizes, c2s, s2c, now, tx, fr, rrpc>>

\* A datagram shorter than the header reaches the client's socket while
\* disconnect() waits for the reply to its FIN.
StrayDatagram ==
  /\ mt.pc = "disc_wait"
  /\ s2c' = s2c \cup {ShortDatagram}
  /\ UNCHANGED <<cfields, mt, rt, connections, drop_rate, outage, sizes,
                 c2s, now, tx, fr, rrpc>>

\* Datagrams other than SYN|ACK that reach the client's socket while connect()
\* waits for the reply to its SYN: one shorter than the header, an ACK without
\* SYN and a SYN without ACK.
StrayReplies ==
  {ShortDatagram, Pkt(ACK, 1000, 1001, 0), Pkt(SYN, 1000, 1001, 0)}

StrayReply ==
  /\ mt.pc = "conn_wait"
  /\ \E d \in StrayReplies : s2c' = s2c \cup {d}
  /\ UNCHANGED <<cfields, mt, rt, connections, drop_rate, outage, sizes,
                 c2s, now, tx, fr, rrpc>>

\* ------------------------------------------------------------------ server
\* should_drop_packet for the draw r (random.random() in percent).
ShouldDrop(r) == r < drop_rate

Known == Peer \in DOMAIN connections

\* A faulty SYN branch that expects the SYN's own sequence number next.
ServerSynNoPlusOne(d, iss) ==
  /\ HasFlag(d.flags, SYN)
  /\ connections' = Put(connections, Peer,
                        [state |-> SrvSYN_RECEIVED, seq_num |-> iss,
                         ack_num |-> d.seq])
  /\ s2c' = s2c \cup {Pkt(SYN + ACK, iss, d.seq, 0)}

\* run() routes a datagram with SYN or ACK to handle_connection_establishment;
\* this is its SYN branch, for the datagram d and the drawn sequence number.
ServerSynOn(d, iss) ==
  /\ HasFlag(d.flags, SYN)
  /\ connections' = Put(connections, Peer,
                        [state |-> SrvSYN_RECEIVED, seq_num |-> iss,
                         ack_num |-> d.seq + 1])
  /\ s2c' = s2c \cup {Pkt(SYN + ACK, iss, d.seq + 1, 0)}

ServerSynWith(isns) ==
  /\ LinkUp
  /\ \E d \in c2s, iss \in isns : ServerSynOn(d, iss)
  /\ UNCHANGED <<cfields, mt, rt, drop_rate, outage, sizes, c2s, now, tx, fr, rrpc>>

ServerSyn == ServerSynWith({Min(ServerISNs)})

\* A faulty ACK branch that does not compare the acknowledgement number.
ServerAckAnyAck(d) ==
  /\ ~HasFlag(d.flags, SYN)
  /\ HasFlag(d.flags, ACK)
  /\ connections' =
       IF Known /\ connections[Peer].state = SrvSYN_RECEIVED
       THEN [connections EXCEPT ![Peer].state = SrvESTABLISHED]
       ELSE connections
  /\ UNCHANGED s2c

\* handle_connection_establishment, ACK branch.
ServerAckOn(d) ==
  /\ ~HasFlag(d.flags, SYN)
  /\ HasFlag(d.flags, ACK)
  /\ connections' =
       IF /\ Known
          /\ connections[Peer].state = SrvSYN_RECEIVED
          /\ d.ack = connections[Peer].seq_num + 1
       THEN [connections EXCEPT ![Peer].state = SrvESTABLISHED]
       ELSE connections
  /\ UNCHANGED s2c

ServerAck ==
  /\ LinkUp
  /\ \E d \in c2s : ServerAckOn(d)
  /\ UNCHANGED <<cfields, mt, rt, drop_rate, outage, sizes, c2s, now, tx, fr, rrpc>>

\* A faulty handle_data_transmission that accepts DATA whatever its sequence
\* number.
ServerDataAnySeq(d, r) ==
  /\ ~HasFlag(d.flags, SYN)
  /\ ~HasFlag(d.flags, ACK)
  /\ HasFlag(d.flags, DATA)
  /\ IF ~Known \/ connections[Peer].state # SrvESTABLISHED
     THEN UNCHANGED <<connections, s2c>>
     ELSE /\ connections' =
               [connections EXCEPT ![Peer].ack_num = d.seq + d.len]
          /\ s2c' = s2c \cup {Pkt(ACK, connections[Peer].seq_num,
                                  d.seq + d.len, 0)}

\* A faulty handle_data_transmission that takes the drop decision before it
\* compares the sequence number.
ServerDataDropFirst(d, r) ==
  /\ ~HasFlag(d.flags, SYN)
  /\ ~HasFlag(d.flags, ACK)
  /\ HasFlag(d.flags, DATA)
  /\ IF ~Known \/ connections[Peer].state # SrvESTABLISHED
     THEN UNCHANGED <<connections, s2c>>
     ELSE IF ShouldDrop(r)
     THEN UNCHANGED <<connections, s2c>>
     ELSE IF d.seq # connections[Peer].ack_num
     THEN /\ s2c' = s2c \cup {Pkt(ACK, connections[Peer].seq_num,
                                  connections[Peer].ack_num, 0)}
          /\ UNCHANGED connections
     ELSE /\ connections' =
               [connections EXCEPT ![Peer].ack_num = d.seq + d.len]
          /\ s2c' = s2c \cup {Pkt(ACK, connections[Peer].seq_num,
                                  d.seq + d.len, 0)}

\* A faulty handle_data_transmission that does not look at the peer's state.
ServerDataAnyState(d, r) ==
  /\ ~HasFlag(d.flags, SYN)
  /\ ~HasFlag(d.flags, ACK)
  /\ HasFlag(d.flags, DATA)
  /\ IF ~Known
     THEN UNCHANGED <<connections, s2c>>
     ELSE IF d.seq # connections[Peer].ack_num
     THEN /\ s2c' = s2c \cup {Pkt(ACK, connections[Peer].seq_num,
                                  connections[Peer].ack_num, 0)}
          /\ UNCHANGED connections
     ELSE IF ShouldDrop(r)
     THEN UNCHANGED <<connections, s2c>>
     ELSE /\ connections' =
               [connections EXCEPT ![Peer].ack_num = d.seq + d.len]
          /\ s2c' = s2c \cup {Pkt(ACK, connections[Peer].seq_num,
                                  d.seq + d.len, 0)}

\* handle_data_transmission, for the datagram d and the drop draw r.
ServerDataOn(d, r) ==
  /\ ~HasFlag(d.flags, SYN)
  /\ ~HasFlag(d.flags, ACK)
  /\ HasFlag(d.flags, DATA)
  /\ IF ~Known \/ connections[Peer].state # SrvESTABLISHED
     THEN UNCHANGED <<connections, s2c>>
     ELSE IF d.seq # connections[Peer].ack_num
     THEN /\ s2c' = s2c \cup {Pkt(ACK, connections[Peer].seq_num,
                                  connections[Peer].ack_num, 0)}
          /\ UNCHANGED connections
     ELSE IF ShouldDrop(r)
     THEN UNCHANGED <<connections, s2c>>
     ELSE /\ connections' =
               [connections EXCEPT ![Peer].ack_num = d.seq + d.len]
          /\ s2c' = s2c \cup {Pkt(ACK, connections[Peer].seq_num,
                                  d.seq + d.len, 0)}

ServerData ==
  /\ LinkUp
  /\ \E d \in c2s, r \in RandomDraws : ServerDataOn(d, r)
  /\ UNCHANGED <<cfields, mt, rt, drop_rate, outage, sizes, c2s, now, tx, fr, rrpc>>

\* A faulty handle_connection_termination that keeps the connection entry.
ServerFinKeepEntry(d) ==
  /\ ~HasFlag(d.flags, SYN)
  /\ ~HasFlag(d.flags, ACK)
  /\ ~HasFlag(d.flags, DATA)
  /\ HasFlag(d.flags, FIN)
  /\ IF Known
     THEN /\ s2c' = s2c \cup {Pkt(FIN + ACK, connections[Peer].seq_num,
                                  d.seq + 1, 0)}
          /\ UNCHANGED connections
     ELSE UNCHANGED <<connections, s2c>>

\* handle_connection_termination.
ServerFinOn(d) ==
  /\ ~HasFlag(d.flags, SYN)
  /\ ~HasFlag(d.flags, ACK)
  /\ ~HasFlag(d.flags, DATA)
  /\ HasFlag(d.flags, FIN)
  /\ IF Known
     THEN /\ s2c' = s2c \cup {Pkt(FIN + ACK, connections[Peer].seq_num,
                                  d.seq + 1, 0)}
          /\ connections' = Del(connections, Peer)
     ELSE UNCHANGED <<connections, s2c>>

ServerFin ==
  /\ LinkUp
  /\ \E d \in c2s : ServerFinOn(d)
  /\ UNCHANGED <<cfields, mt, rt, drop_rate, outage, sizes, c2s, now, tx, fr, rrpc>>

\* The server alone, with a peer that sends it any datagram of PeerDatagrams
\* at any time (the one in flight is the one the server reads, any number of
\* times or not at all): SYN and FIN with two sequence numbers, ACK with the
\* acknowledgement of either server sequence number or neither, DATA in and
\* out of order.
PeerDatagrams ==
  {Pkt(SYN, q, 0, 0) : q \in {1000, 1040}}
    \cup {Pkt(ACK, 1001, a, 0) : a \in {0} \cup {n + 1 : n \in ServerISNs}}
    \cup {Pkt(DATA, q, 0, MinData) : q \in {1001, 1041}}
    \cup {Pkt(FIN, q, 0, 0) : q \in {1001, 1081}}

ServerInit ==
  /\ InitWith(1, DataSizes, NoOutage)
  /\ fr = FramerIdle
  /\ rrpc = RrpcOff

PeerSend ==
  /\ \E d \in PeerDatagrams : c2s' = {d}
  /\ UNCHANGED <<cfields, mt, rt, connections, drop_rate, outage, sizes,
                 s2c, now, tx, fr, rrpc>>

ServerSynAny == ServerSynWith(ServerISNs)

\* ------------------------------------------------------------ packet framer
\* A 32-bit field is kept as its two 16-bit halves.
U32(h, l) == [hi |-> h, lo |-> l]

\* struct.pack('!I', n) and struct.pack('!H', n): big-endian bytes.
PackU16(n) == <<(n \div 256) % 256, n % 256>>

\* A faulty pack that writes the 32-bit fields in little-endian order.
PackU32LittleEndian(n) ==
  <<n.lo % 256, (n.lo \div 256) % 256, n.hi % 256, (n.hi \div 256) % 256>>

PackU32(n) == PackU16(n.hi) \o PackU16(n.lo)

\* struct.unpack of the same fields.
UnpackU16(b) == b[1] * 256 + b[2]

UnpackU32(b) == U32(UnpackU16(SubSeq(b, 1, 2)), UnpackU16(SubSeq(b, 3, 4)))

\* The five values parse_packet returns, and its five None.
Parsed(f, s, a, l, d) ==
  [flags |-> f, seq_num |-> s, ack_num |-> a, length |-> l, data |-> d]

NoPacket == [flags |-> "None"]

\* UDPClient.create_packet and UDPClient.parse_packet.
create_packet(flags, seq, ack, data) ==
  <<flags>> \o PackU32(seq) \o PackU32(ack) \o PackU16(Len(data)) \o data

parse_packet(packet) ==
  IF Len(packet) < HeaderLen
  THEN NoPacket
  ELSE Parsed(packet[1], UnpackU32(SubSeq(packet, 2, 5)),
              UnpackU32(SubSeq(packet, 6, 9)),
              UnpackU16(SubSeq(packet, 10, 11)),
              SubSeq(packet, HeaderLen + 1, Len(packet)))

\* UDPServer.create_packet and UDPServer.parse_packet.
SrvCreatePacket(flags, seq, ack, data) ==
  <<flags>> \o PackU32(seq) \o PackU32(ack) \o PackU16(Len(data)) \o data

SrvParsePacket(packet) ==
  IF Len(packet) < HeaderLen
  THEN NoPacket
  ELSE Parsed(packet[1], UnpackU32(SubSeq(packet, 2, 5)),
              UnpackU32(SubSeq(packet, 6, 9)),
              UnpackU16(SubSeq(packet, 10, 11)),
              SubSeq(packet, HeaderLen + 1, Len(packet)))

\* The inputs the framers are run on: flag bytes, 32-bit numbers up to
\* 2^32 - 1, and payloads of 0 to 80 bytes (generate_data's, and two others).
MaxHalf == 65535

FlagBytes == {0, SYN, ACK, SYN + ACK, FIN, FIN + ACK, DATA, RST, 255}

Words == {U32(0, 0), U32(0, 1000), U32(0, MaxHalf), U32(1, 0),
          U32(32768, 257), U32(MaxHalf, MaxHalf)}

generate_data(size) == [i \in 1..size |-> XByte]

Payloads == {generate_data(n) : n \in {0, 1, MinData, MaxData}}
              \cup {<<0>>, <<255, 10, 0>>}

FramerInit ==
  /\ InitWith(1, DataSizes, NoOutage)
  /\ rrpc = RrpcOff
  /\ fr \in [stage : {"in"}, flags : FlagBytes, seq_num : Words,
             ack_num : Words, data : Payloads, packet : {<<>>},
             out : {NoPacket}]

\* create_packet runs on the input, at the client or at the server.
ClientCreate ==
  /\ fr.stage = "in"
  /\ fr' = [fr EXCEPT !.stage = "wire",
                      !.packet = create_packet(fr.flags, fr.seq_num,
                                               fr.ack_num, fr.data)]
  /\ UNCHANGED <<cfields, mt, rt, connections, drop_rate, outage, sizes,
                 c2s, s2c, now, tx, rrpc>>

ServerCreate ==
  /\ fr.stage = "in"
  /\ fr' = [fr EXCEPT !.stage = "wire",
                      !.packet = SrvCreatePacket(fr.flags, fr.seq_num,
                                                 fr.ack_num, fr.data)]
  /\ UNCHANGED <<cfields, mt, rt, connections, drop_rate, outage, sizes,
                 c2s, s2c, now, tx, rrpc>>

\* parse_packet runs on the datagram, at the client or at the server.
ClientParse ==
  /\ fr.stage = "wire"
  /\ fr' = [fr EXCEPT !.stage = "out", !.out = parse_packet(fr.packet)]
  /\ UNCHANGED <<cfields, mt, rt, connections, drop_rate, outage, sizes,
                 c2s, s2c, now, tx, rrpc>>

ServerParse ==
  /\ fr.stage = "wire"
  /\ fr' = [fr EXCEPT !.stage = "out", !.out = SrvParsePacket(fr.packet)]
  /\ UNCHANGED <<cfields, mt, rt, connections, drop_rate, outage, sizes,
                 c2s, s2c, now, tx, rrpc>>

\* A datagram as any UDP sender can put it on the wire: a header that
\* declares `length` bytes of payload, followed by the payload `data`, of
\* which only the first `keep` bytes arrive (recvfrom returns what was sent;
\* nothing ties the declared length to it).
DeclaredLengths == {0, 1, MinData, MaxData}

ShortLengths == {0, 1, HeaderLen - 1}

RawDatagram(flags, seq, ack, length, data) ==
  <<flags>> \o PackU32(seq) \o PackU32(ack) \o PackU16(length) \o data

DecodeInit ==
  /\ InitWith(1, DataSizes, NoOutage)
  /\ rrpc = RrpcOff
  /\ \E f \in {ACK, DATA, FIN}, s \in {U32(0, 1000), U32(MaxHalf, MaxHalf)},
        l \in DeclaredLengths, d \in Payloads :
       \E k \in ShortLengths \cup {HeaderLen + Len(d)} :
         fr = [stage |-> "wire", flags |-> f, seq_num |-> s,
               ack_num |-> U32(0, 0), length |-> l, data |-> d,
               packet |-> SubSeq(RawDatagram(f, s, U32(0, 0), l, d), 1, k),
               out |-> NoPacket]

\* --------------------------------------------------- reverse RPC over TCP
\* Bounds of the reverse-RPC runs: the longest input file, the longest chunk
\* (Lmax) and the number of chunks up to which an empty chunk may be added.
MaxFileLen == 3
MaxChunkLen == 2
MaxChunks == 3

\* Message types of the two programs.
Initialization == 1
Agree == 2
ReverseRequest == 3
ReverseAnswer == 4
RrHeaderLen == 6

\* Input files "", "a", "ab", "abc", ... (ASCII codes 97, 98, ...) and the
\* (Lmin, Lmax) pairs main() admits.
File(n) == [i \in 1..n |-> 96 + i]

Files == {File(n) : n \in 0..MaxFileLen}

ChunkRanges ==
  {r \in [lo : 0..MaxChunkLen, hi : 1..MaxChunkLen] : r.lo <= r.hi}

\* struct.pack('>HI', type, length) and struct.unpack of it.
RrHeader(type, length) == PackU16(type) \o PackU32(U32(0, length))

RrType(h) == UnpackU16(SubSeq(h, 1, 2))

RrLength(h) ==
  UnpackU32(SubSeq(h, 3, 6)).hi * 65536 + UnpackU32(SubSeq(h, 3, 6)).lo

\* s[::-1] and ''.join(list).
Reverse(s) == [i \in 1..Len(s) |-> s[Len(s) + 1 - i]]

RECURSIVE Join(_)
Join(l) == IF l = <<>> THEN <<>> ELSE Head(l) \o Join(Tail(l))

\* The numbers of bytes recv(n) can return from the stream buf: none when
\* n = 0, otherwise at least one and at most n of the bytes present, and none
\* at the end of a stream the peer closed; recv blocks on an empty open stream.
RecvSizes(buf, n, eof) ==
  IF n = 0 THEN {0}
  ELSE IF Len(buf) > 0 THEN 1..Min({n, Len(buf)})
  ELSE IF eof THEN {0} ELSE {}

\* The connections served at the same time, each by a client process and a
\* worker thread of the server.
MaxConns == 2

Conns == 1..MaxConns

\* A session: the client's locals, the server worker's locals, and the two
\* directions of the connection (up: client to server, down: server to
\* client). short records that a recv of the client returned fewer bytes
\* than it asked for.
Session(f, r) ==
  [cpc |-> "chunking", data |-> f, Lmin |-> r.lo, Lmax |-> r.hi,
   start |-> 0, chunks |-> <<>>, i |-> 1, a_length |-> 0,
   reversed_chunks |-> <<>>, written |-> FALSE, output |-> <<>>,
   error |-> "none", short |-> FALSE, cclosed |-> FALSE,
   spc |-> "init", chunks_num |-> 0, served |-> 0,
   data_len |-> 0, sdata |-> <<>>, sclosed |-> FALSE,
   up |-> <<>>, down |-> <<>>]

\* The first client runs on any file and chunk range, the others on the file
\* "ab" cut into chunks of one character.
RrpcInit ==
  /\ InitWith(1, DataSizes, NoOutage)
  /\ fr = FramerIdle
  /\ \E f \in Files, r \in ChunkRanges :
       rrpc = [c \in Conns |->
                 IF c = 1 THEN Session(f, r)
                 ELSE Session(File(2), [lo |-> 1, hi |-> 1])]

RrOthers == <<cfields, mt, rt, connections, drop_rate, outage, sizes,
              c2s, s2c, now, tx, fr>>

\* The session of connection c becomes r; no other session changes.
Becomes(c, r) == rrpc' = [rrpc EXCEPT ![c] = r]

\* The client's except/finally: the error is reported and the socket closed.
ClientFail(r, e) == [r EXCEPT !.cpc = "closed", !.error = e, !.cclosed = TRUE]

\* reversetcpclient.main: one round of the chunking loop, and its end.
RrClientChunk(c) ==
  LET s == rrpc[c] IN
  /\ s.cpc = "chunking"
  /\ s.start < Len(s.data)
  /\ \E n \in s.Lmin..s.Lmax :
       LET chunk_len == Min({n, Len(s.data) - s.start}) IN
         /\ chunk_len > 0 \/ Len(s.chunks) < MaxChunks
         /\ Becomes(c, [s EXCEPT
                          !.chunks = Append(@, SubSeq(s.data, s.start + 1,
                                                      s.start + chunk_len)),
                          !.start = @ + chunk_len])
  /\ UNCHANGED RrOthers

\* The loop has ended; the connection is opened and Initialization is sent.
RrClientSendInit(c) ==
  LET s == rrpc[c] IN
  /\ s.cpc = "chunking"
  /\ s.start >= Len(s.data)
  /\ Becomes(c, [s EXCEPT
                   !.cpc = "agree",
                   !.up = @ \o RrHeader(Initialization, Len(s.chunks))])
  /\ UNCHANGED RrOthers

\* The position after the agreement or after an answer: the next chunk, or
\* the end of the for loop.
ClientNextChunk(r) ==
  [r EXCEPT !.cpc = IF r.i <= Len(r.chunks) THEN "send" ELSE "write"]

RrClientRecvAgree(c) ==
  LET s == rrpc[c] IN
  /\ s.cpc = "agree"
  /\ \E k \in RecvSizes(s.down, RrHeaderLen, s.sclosed) :
       LET h == SubSeq(s.down, 1, k)
           r == [s EXCEPT !.down = SubSeq(@, k + 1, Len(@)),
                          !.short = @ \/ k < RrHeaderLen]
       IN Becomes(c,
            IF k < RrHeaderLen THEN ClientFail(r, "Incomplete agree header")
            ELSE IF RrType(h) # Agree \/ RrLength(h) # 0
            THEN ClientFail(r, "Invalid agree packet")
            ELSE ClientNextChunk(r))
  /\ UNCHANGED RrOthers

\* ReverseRequest for chunk i.
RrClientSendRequest(c) ==
  LET s == rrpc[c] IN
  /\ s.cpc = "send"
  /\ Becomes(c, [s EXCEPT
                   !.cpc = "ans_header",
                   !.up = @ \o RrHeader(ReverseRequest, Len(s.chunks[s.i]))
                            \o s.chunks[s.i]])
  /\ UNCHANGED RrOthers

RrClientRecvAnsHeader(c) ==
  LET s == rrpc[c] IN
  /\ s.cpc = "ans_header"
  /\ \E k \in RecvSizes(s.down, RrHeaderLen, s.sclosed) :
       LET h == SubSeq(s.down, 1, k)
           r == [s EXCEPT !.down = SubSeq(@, k + 1, Len(@)),
                          !.short = @ \/ k < RrHeaderLen]
       IN Becomes(c,
            IF k < RrHeaderLen THEN ClientFail(r, "Incomplete answer header")
            ELSE IF RrType(h) # ReverseAnswer
            THEN ClientFail(r, "Invalid answer type")
            ELSE [r EXCEPT !.cpc = "ans_data", !.a_length = RrLength(h)])
  /\ UNCHANGED RrOthers

RrClientRecvAnsData(c) ==
  LET s == rrpc[c] IN
  /\ s.cpc = "ans_data"
  /\ \E k \in RecvSizes(s.down, s.a_length, s.sclosed) :
       LET reversed_data == SubSeq(s.down, 1, k)
           r == [s EXCEPT !.down = SubSeq(@, k + 1, Len(@)),
                          !.short = @ \/ k < s.a_length]
       IN Becomes(c,
            IF k # s.a_length
            THEN ClientFail(r, "Incomplete reversed data")
            ELSE ClientNextChunk(
                   [r EXCEPT !.reversed_chunks = Append(@, reversed_data),
                             !.i = @ + 1]))
  /\ UNCHANGED RrOthers

\* A faulty end of the client that joins the answers in the order received.
RrClientWriteInOrder(c) ==
  LET s == rrpc[c] IN
  /\ s.cpc = "write"
  /\ Becomes(c, [s EXCEPT
                   !.cpc = "closed", !.written = TRUE, !.cclosed = TRUE,
                   !.output = Join(s.reversed_chunks)])
  /\ UNCHANGED RrOthers

\* The answers are put in reverse order, joined and written; the socket is
\* closed.
RrClientWrite(c) ==
  LET s == rrpc[c] IN
  /\ s.cpc = "write"
  /\ Becomes(c, [s EXCEPT
                   !.cpc = "closed", !.written = TRUE, !.cclosed = TRUE,
                   !.output = Join(Reverse(s.reversed_chunks))])
  /\ UNCHANGED RrOthers

\* reversetcpserver.handle_client: Initialization.
RrServerRecvInit(c) ==
  LET s == rrpc[c] IN
  /\ s.spc = "init"
  /\ \E k \in RecvSizes(s.up, RrHeaderLen, s.cclosed) :
       LET h == SubSeq(s.up, 1, k)
           r == [s EXCEPT !.up = SubSeq(@, k + 1, Len(@))]
       IN Becomes(c,
            IF k < RrHeaderLen \/ RrType(h) # Initialization
            THEN [r EXCEPT !.spc = "closing"]
            ELSE [r EXCEPT !.spc = "agree", !.chunks_num = RrLength(h)])
  /\ UNCHANGED RrOthers

\* The position at the head of `for _ in range(chunks_num)`.
ServerNextRequest(r) ==
  [r EXCEPT !.spc = IF r.served < r.chunks_num THEN "req_header"
                    ELSE "closing"]

RrServerSendAgree(c) ==
  LET s == rrpc[c] IN
  /\ s.spc = "agree"
  /\ Becomes(c, ServerNextRequest([s EXCEPT !.down = @ \o RrHeader(Agree, 0)]))
  /\ UNCHANGED RrOthers

RrServerRecvReqHeader(c) ==
  LET s == rrpc[c] IN
  /\ s.spc = "req_header"
  /\ \E k \in RecvSizes(s.up, RrHeaderLen, s.cclosed) :
       LET h == SubSeq(s.up, 1, k)
           r == [s EXCEPT !.up = SubSeq(@, k + 1, Len(@))]
       IN Becomes(c,
            IF k < RrHeaderLen \/ RrType(h) # ReverseRequest
            THEN [r EXCEPT !.spc = "closing"]
            ELSE [r EXCEPT !.data_len = RrLength(h), !.sdata = <<>>,
                           !.spc = IF RrLength(h) = 0 THEN "answer"
                                   ELSE "req_data"])
  /\ UNCHANGED RrOthers

\* One recv of the loop that collects the data block.
RrServerRecvData(c) ==
  LET s == rrpc[c] IN
  /\ s.spc = "req_data"
  /\ \E k \in RecvSizes(s.up, s.data_len - Len(s.sdata), s.cclosed) :
       LET r == [s EXCEPT !.up = SubSeq(@, k + 1, Len(@)),
                          !.sdata = @ \o SubSeq(s.up, 1, k)]
       IN Becomes(c,
            IF k = 0 THEN [r EXCEPT !.spc = "closing"]
            ELSE IF Len(r.sdata) = r.data_len THEN [r EXCEPT !.spc = "answer"]
            ELSE r)
  /\ UNCHANGED RrOthers

\* A faulty worker that sends the data block back as it came.
RrServerEcho(c) ==
  LET s == rrpc[c] IN
  /\ s.spc = "answer"
  /\ Becomes(c, ServerNextRequest(
                  [s EXCEPT
                     !.down = @ \o RrHeader(ReverseAnswer, Len(s.sdata))
                                \o s.sdata,
                     !.served = @ + 1]))
  /\ UNCHANGED RrOthers

RrServerAnswer(c) ==
  LET s == rrpc[c] IN
  /\ s.spc = "answer"
  /\ LET reversed_str == Reverse(s.sdata) IN
       Becomes(c, ServerNextRequest(
                    [s EXCEPT
                       !.down = @ \o RrHeader(ReverseAnswer, Len(reversed_str))
                                  \o reversed_str,
                       !.served = @ + 1]))
  /\ UNCHANGED RrOthers

\* finally: conn.close().
RrServerClose(c) ==
  LET s == rrpc[c] IN
  /\ s.spc = "closing"
  /\ Becomes(c, [s EXCEPT !.spc = "closed", !.sclosed = TRUE])
  /\ UNCHANGED RrOthers

\* ------------------------------------------------- a network without loss
\* Runs of connect() and send_data() against a server with drop_rate 0 over a
\* network that delivers every datagram exactly once: reading a datagram
\* takes it from the network. Two networks are run. The first delivers at any
\* time and in any order; LosslessPackets packets are sent over it. The second
\* (Ordered) delivers to the server in the order sent, and every packet is
\* acknowledged and retired within MaxRtt ticks of its transmission: the main
\* thread never wakes from a sleep to find an older packet outstanding;
\* PromptPackets packets are sent over it.
LosslessPackets == 1
PromptPackets == 3
MaxRtt == 2

Ordered == [from |-> 0, to |-> 0, within |-> MaxRtt]

Prompt == "within" \in DOMAIN outage

LosslessInit ==
  /\ fr = FramerIdle
  /\ rrpc = RrpcOff
  /\ \/ InitFor(LosslessPackets, {MinData}, NoOutage, {0})
     \/ InitFor(PromptPackets, DataSizes, Ordered, {0})

\* The client sends SYN, then the ACK of the handshake, then DATA in the
\* order of the sequence numbers.
SendRank(d) ==
  IF HasFlag(d.flags, SYN) THEN 0
  ELSE IF HasFlag(d.flags, ACK) THEN 1 ELSE d.seq

FirstSent(S) == CHOOSE d \in S : \A e \in S : SendRank(d) <= SendRank(e)

\* The datagrams of S the server's next recvfrom can return.
Arrived(S) == IF Prompt /\ S # {} THEN {FirstSent(S)} ELSE S

Timely ==
  Prompt =>
    \A k \in DOMAIN packet_times' : now' - packet_times'[k] <= outage.within

\* The client's recvfrom in connect() and in receive_acks.
LlConnectRecv == \E d \in s2c : ConnectRecvOn(d) /\ s2c' = s2c \ {d}

LlConnectTimeout == ~Prompt /\ ConnectTimeout

LlRecvDatagram == \E d \in s2c : RecvDatagramOn(d) /\ s2c' = s2c \ {d}

\* The steps of the main thread that sleep.
LlSendPacket == SendPacket /\ Timely

LlScan == RtScan /\ Timely

LlDrainCheck == DrainCheck /\ Timely

\* The server's recvfrom and the handler run() chooses.
LlServerSyn ==
  /\ \E d \in Arrived(c2s) :
       ServerSynOn(d, Min(ServerISNs)) /\ c2s' = c2s \ {d}
  /\ UNCHANGED <<cfields, mt, rt, drop_rate, outage, sizes, now, tx, fr, rrpc>>

LlServerAck ==
  /\ \E d \in Arrived(c2s) : ServerAckOn(d) /\ c2s' = c2s \ {d}
  /\ UNCHANGED <<cfields, mt, rt, drop_rate, outage, sizes, now, tx, fr, rrpc>>

LlServerData ==
  /\ \E d \in Arrived(c2s), r \in RandomDraws :
       ServerDataOn(d, r) /\ c2s' = c2s \ {d}
  /\ UNCHANGED <<cfields, mt, rt, drop_rate, outage, sizes, now, tx, fr, rrpc>>

\* ---------------------------------------------------------- specification
MainNext ==
  \/ ConnectSendSyn \/ ConnectRecv \/ ConnectTimeout \/ SendDataStart
  \/ SendPacket
  \/ RtBegin \/ RtScan \/ RtCheck \/ RtRead \/ RtCount \/ RtSend \/ RtInc
  \/ FailCheck \/ FailDel
  \/ DrainCheck \/ DrainReport
  \/ DisconnectSendFin \/ DisconnectRecv \/ DisconnectTimeout
  \/ PrintStatistics \/ SocketClose \/ ProcessExit

RecvNext ==
  \/ RecvLoopCheck \/ RecvDatagram \/ RecvTimeout \/ RecvSocketError
  \/ HandleAckEnter \/ HandleAckNext \/ HandleAckDel

ServerNext == ServerSyn \/ ServerAck \/ ServerData \/ ServerFin

Next == MainNext \/ RecvNext \/ ServerNext

Spec == Init /\ [][Next]_vars

FramerNext == ClientCreate \/ ServerCreate \/ ClientParse \/ ServerParse

SpecFramer == FramerInit /\ [][FramerNext]_vars

DecodeNext == ClientParse \/ ServerParse

SpecDecode == DecodeInit /\ [][DecodeNext]_vars

RrpcClientNext ==
  \E c \in Conns :
    \/ RrClientChunk(c) \/ RrClientSendInit(c) \/ RrClientRecvAgree(c)
    \/ RrClientSendRequest(c) \/ RrClientRecvAnsHeader(c)
    \/ RrClientRecvAnsData(c) \/ RrClientWrite(c)

RrpcServerNext ==
  \E c \in Conns :
    \/ RrServerRecvInit(c) \/ RrServerSendAgree(c) \/ RrServerRecvReqHeader(c)
    \/ RrServerRecvData(c) \/ RrServerAnswer(c) \/ RrServerClose(c)

RrpcNext == RrpcClientNext \/ RrpcServerNext

SpecRrpc == RrpcInit /\ [][RrpcNext]_vars

ServerAloneNext ==
  PeerSend \/ ServerSynAny \/ ServerAck \/ ServerData \/ ServerFin

SpecServer == ServerInit /\ [][ServerAloneNext]_vars

\* The run of one packet, with a stray datagram during the teardown.
StrayInit ==
  /\ fr = FramerIdle
  /\ rrpc = RrpcOff
  /\ InitWith(1, {MinData}, NoOutage)

StrayNext == Next \/ StrayDatagram

SpecStray == StrayInit /\ [][StrayNext]_vars

\* The run of one packet, with stray datagrams during the handshake.
ConnectNext == Next \/ StrayReply

SpecConnect == StrayInit /\ [][ConnectNext]_vars

\* connect() and send_data() over the networks without loss.
LosslessNext ==
  \/ ConnectSendSyn \/ LlConnectRecv \/ LlConnectTimeout \/ SendDataStart
  \/ LlSendPacket
  \/ RtBegin \/ LlScan \/ RtCheck \/ RtRead \/ RtCount \/ RtSend \/ RtInc
  \/ FailCheck \/ FailDel
  \/ LlDrainCheck \/ DrainReport
  \/ SocketClose \/ ProcessExit
  \/ RecvLoopCheck \/ LlRecvDatagram \/ RecvTimeout \/ RecvSocketError
  \/ HandleAckEnter \/ HandleAckNext \/ HandleAckDel
  \/ LlServerSyn \/ LlServerAck \/ LlServerData

SpecLossless == LosslessInit /\ [][LosslessNext]_vars

\* ------------------------------------------------------------- properties
\* The properties of the sender's fields are stated for the states in which
\* the lock is free, and for the steps that enter or leave an operation.

\* C1: in every reachable state the bytes in flight are within the window:
\* next_seq_num - base <= window_size (400).
C1_WindowBound == next_seq_num - base <= window_size

\* C2: send_packet accepts (sends the DATA packet, records it, advances
\* next_seq_num by the payload length) exactly when
\* next_seq_num - base + |payload| <= window_size; otherwise it refuses, sends
\* nothing and leaves base, next_seq_num and the maps unchanged.
C2_Admission ==
  [][(mt.pc = "sd_loop" /\ mt'.pc = "rt_begin") =>
       /\ mt'.accepted <=>
            (next_seq_num - base + mt'.data_size <= window_size)
       /\ mt'.accepted =>
            /\ Pkt(DATA, next_seq_num, ack_num, mt'.data_size) \in c2s'
            /\ next_seq_num \in DOMAIN packets'
            /\ next_seq_num' = next_seq_num + mt'.data_size
       /\ ~mt'.accepted =>
            UNCHANGED <<c2s, base, next_seq_num, packets, packet_times,
                        retransmit_count>>]_vars

\* C3: base never decreases, and handle_ack with an ACK number below base
\* leaves base, next_seq_num, the outstanding maps, the RTT samples and the
\* timeout unchanged.
C3_AckMonotone ==
  [][/\ base' >= base
     /\ (rt.pc = "ha_enter" /\ rt'.pc # "ha_enter" /\ rt.ack < base) =>
          UNCHANGED <<base, next_seq_num, packets, packet_times,
                      retransmit_count, rtt_list, timeout_interval>>]_vars

\* C3, its case: handle_ack has been called with an ACK number below a base
\* that has advanced past its value at connect.
C3_StaleAckCalled ==
  /\ rt.pc = "ha_enter"
  /\ rt.ack < base
  /\ base > initial_seq_num + 1

\* C4: base <= next_seq_num in every reachable state, whichever datagram with
\* the ACK flag the receiver thread reads.
C4_BaseWithinNext == base <= next_seq_num

\* C5: while the lock is free, every key of packets lies in
\* [base, next_seq_num), every outstanding packet is followed at once by the
\* next admitted packet (or ends at next_seq_num), and while no packet has
\* been abandoned the outstanding ranges cover [base, next_seq_num).
C5_Outstanding ==
  lock = "free" =>
    /\ \A k \in DOMAIN packets : base <= k /\ k < next_seq_num
    /\ \A k \in DOMAIN packets :
         /\ packets[k].start_byte = k
         /\ \/ packets[k].end_byte + 1 = next_seq_num
            \/ packets[k].end_byte + 1 \in DOMAIN tx
    /\ mt.abandoned = 0 =>
         /\ base < next_seq_num => base \in DOMAIN packets
         /\ \A k \in DOMAIN packets :
              \/ packets[k].end_byte + 1 = next_seq_num
              \/ packets[k].end_byte + 1 \in DOMAIN packets

\* C6: no DATA packet is sent more than 6 times (once, and MaxRetransmit
\* retransmissions), however retransmit_packets and handle_ack interleave.
C6_RetryCap == \A k \in DOMAIN tx : tx[k] <= 1 + MaxRetransmit

\* C7: the timeout is 300 ms until the first RTT sample and from then on the
\* larger of 5 times the mean of all samples and 100 ms; so it is never below
\* 100 ms.
C7_Timeout ==
  /\ timeout_interval.num >= min_timeout * timeout_interval.den
  /\ rtt_list = <<>> => timeout_interval = [num |-> initial_timeout, den |-> 1]
  /\ rtt_list # <<>> =>
       IF 5 * SumSeq(rtt_list) >= min_timeout * Len(rtt_list)
       THEN timeout_interval.num * Len(rtt_list)
              = 5 * SumSeq(rtt_list) * timeout_interval.den
       ELSE timeout_interval.num = min_timeout * timeout_interval.den

\* C7, its case: the timeout has been updated from several samples to a value
\* above the floor.
C7_TimeoutUpdated ==
  /\ Len(rtt_list) >= 2
  /\ timeout_interval.num > min_timeout * timeout_interval.den

\* C8: handle_ack with an ACK number not below base sets base to it; when it
\* ends no packet with end_byte below the ACK number is outstanding and one
\* RTT sample has been added for each packet the ACK covered; none of its
\* steps removes a packet the ACK does not cover or changes that packet's send
\* time or retransmit count.
C8_HandleAck ==
  [][/\ (rt.pc = "ha_enter" /\ rt'.pc # "ha_enter" /\ rt.ack >= base) =>
          base' = rt.ack
     /\ (rt.pc \in {"ha_iter", "ha_del"} /\ rt'.pc \in {"r_loop", "r_done"}) =>
          /\ base' = rt.ack
          /\ \A k \in DOMAIN packets' : packets'[k].end_byte >= rt.ack
          /\ Len(rtt_list') = rt.entry_samples + rt.entry_acked
     /\ (rt.pc \in {"ha_iter", "ha_del"} /\ rt' # rt) =>
          \A k \in DOMAIN packets :
            packets[k].end_byte >= rt.ack =>
              /\ k \in DOMAIN packets'
              /\ packet_times'[k] = packet_times[k]
              /\ retransmit_count'[k] = retransmit_count[k]]_vars

\* C9: retransmit_packets removes a packet only when its retransmit count is
\* 5 and the scan found it timed out; the removal leaves base and
\* next_seq_num unchanged; base changes only in connect and in handle_ack.
C9_Abandon ==
  [][/\ (mt.pc = "rt_del" /\ mt'.abandoned # mt.abandoned) =>
          /\ retransmit_count[Head(mt.failed_packets)] = MaxRetransmit
          /\ (mt.current_time - packet_times[Head(mt.failed_packets)])
               * TickLen * mt.scan_timeout.den > mt.scan_timeout.num
          /\ Head(mt.failed_packets) \notin DOMAIN packets'
          /\ UNCHANGED <<base, next_seq_num>>
     /\ base' # base =>
          \/ mt.pc = "conn_wait" /\ mt'.pc = "sd_start"
          \/ rt.pc = "ha_enter" /\ rt'.pc = "ha_iter"]_vars

\* C9, its case: a packet has been abandoned and base still lies below
\* next_seq_num.
C9_Abandoned == mt.abandoned >= 1 /\ base < next_seq_num

\* C10: parse_packet(create_packet(flags, seq, ack, payload)) returns
\* (flags, seq, ack, len(payload), payload), at the client and at the server.
C10_RoundTrip ==
  fr.stage = "out" =>
    fr.out = Parsed(fr.flags, fr.seq_num, fr.ack_num, Len(fr.data), fr.data)

\* C10, its case: a packet with an 80-byte payload and the largest 32-bit
\* sequence number has been framed and parsed.
C10_LargestParsed ==
  /\ fr.stage = "out"
  /\ Len(fr.data) = MaxData
  /\ fr.seq_num = U32(MaxHalf, MaxHalf)
  /\ fr.flags = FIN + ACK


\* C11: parse_packet returns no fields for a datagram shorter than 11 bytes
\* and for a datagram whose declared length differs from the number of bytes
\* that follow the header.
C11_Malformed ==
  (/\ fr.stage = "out"
   /\ \/ Len(fr.packet) < HeaderLen
      \/ fr.length # Len(fr.packet) - HeaderLen)
    => fr.out = NoPacket

\* C11, its case: a datagram shorter than the header has been parsed.
C11_ShortParsed ==
  fr.stage = "out" /\ Len(fr.packet) = HeaderLen - 1 /\ fr.out = NoPacket

\* C12: when the client has received every answer it writes
\* reverse(cn) || ... || reverse(c1) for the chunks c1..cn it split the file
\* into, and that is the reverse of the file; the client fails only after a
\* recv that returned fewer bytes than it asked for.
C12_ReverseLaw ==
  \A c \in Conns :
    LET s == rrpc[c] IN
    /\ s.cpc = "closed" /\ s.written =>
         /\ s.output =
              Join([j \in 1..Len(s.chunks) |->
                      Reverse(s.chunks[Len(s.chunks) + 1 - j])])
         /\ s.output = Reverse(s.data)
         /\ Join(s.chunks) = s.data
    /\ s.cpc = "closed" /\ ~s.written => s.short

\* C12, its case: a file of MaxFileLen characters split into three chunks,
\* one of them empty, has been written reversed.
C12_ThreeChunksWritten ==
  /\ rrpc[1].cpc = "closed"
  /\ rrpc[1].written
  /\ Len(rrpc[1].data) = MaxFileLen
  /\ Len(rrpc[1].chunks) = 3
  /\ \E j \in 1..3 : rrpc[1].chunks[j] = <<>>

\* C13: for DATA from a peer in ESTABLISHED, in order and not dropped, the
\* server sets rcv_next (ack_num) to seq + len and replies ACK(iss, seq + len);
\* out of order, it leaves rcv_next unchanged and replies ACK(iss, rcv_next),
\* so every retransmission of an accepted packet gets the same ACK.
C13_DataHandling ==
  [][\A d \in c2s, r \in RandomDraws :
       (/\ ServerDataOn(d, r)
        /\ Known
        /\ connections[Peer].state = SrvESTABLISHED) =>
         LET rcv_next == connections[Peer].ack_num
             iss == connections[Peer].seq_num
         IN /\ (d.seq = rcv_next /\ ~ShouldDrop(r)) =>
                 /\ connections' =
                      [connections EXCEPT ![Peer].ack_num = d.seq + d.len]
                 /\ s2c' = s2c \cup {Pkt(ACK, iss, d.seq + d.len, 0)}
            /\ d.seq # rcv_next =>
                 /\ connections' = connections
                 /\ s2c' = s2c \cup {Pkt(ACK, iss, rcv_next, 0)}]_vars

\* C13, its case: two packets were accepted in order and the first is in
\* flight again.
C13_SecondAccepted ==
  /\ Known
  /\ connections[Peer].state = SrvESTABLISHED
  /\ connections[Peer].ack_num = 1001 + 2 * MinData
  /\ Pkt(ACK, connections[Peer].seq_num, 1001 + MinData, 0) \in s2c
  /\ Pkt(ACK, connections[Peer].seq_num, 1001 + 2 * MinData, 0) \in s2c
  /\ c2s = {Pkt(DATA, 1001, 0, MinData)}

\* C14: a SYN from a peer that is unknown or in SYN_RECEIVED leaves the peer
\* in SYN_RECEIVED with rcv_next = seq + 1 and a server sequence number in
\* [1000, 9999], and SYN|ACK(iss, seq + 1) is sent; an ACK for the current
\* (latest) server sequence number then moves the peer to ESTABLISHED.
C14_SynHandling ==
  [][/\ \A d \in c2s, iss \in ServerISNs :
          (/\ ServerSynOn(d, iss)
           /\ ~Known \/ connections[Peer].state = SrvSYN_RECEIVED) =>
            /\ Peer \in DOMAIN connections'
            /\ connections'[Peer].state = SrvSYN_RECEIVED
            /\ connections'[Peer].ack_num = d.seq + 1
            /\ connections'[Peer].seq_num \in 1000..9999
            /\ s2c' = s2c \cup {Pkt(SYN + ACK, connections'[Peer].seq_num,
                                    d.seq + 1, 0)}
     /\ \A d \in c2s :
          (/\ ServerAckOn(d)
           /\ Known
           /\ connections[Peer].state = SrvSYN_RECEIVED
           /\ d.ack = connections[Peer].seq_num + 1) =>
            connections' = [connections EXCEPT ![Peer].state = SrvESTABLISHED]
    ]_vars

\* C14, its case: two SYNs were answered with different server sequence
\* numbers and the ACK for the later one established the connection.
C14_SecondSynEstablished ==
  /\ s2c = {Pkt(SYN + ACK, 1000, 1001, 0), Pkt(SYN + ACK, 9999, 1041, 0)}
  /\ Known
  /\ connections[Peer] = [state |-> SrvESTABLISHED, seq_num |-> 9999,
                          ack_num |-> 1041]
  /\ c2s = {Pkt(ACK, 1001, 10000, 0)}

C17_Connect ==
  [][/\ (mt.pc = "start" /\ mt'.pc = "conn_wait") =>
          /\ Pkt(SYN, initial_seq_num, 0, 0) \in c2s'
          /\ state = CLOSED
          /\ state' = SYN_SENT
     /\ (state # ESTABLISHED /\ state' = ESTABLISHED) =>
          /\ state = SYN_SENT
          /\ \E d \in s2c :
               /\ HasFlag(d.flags, SYN) /\ HasFlag(d.flags, ACK)
               /\ Pkt(ACK, initial_seq_num + 1, d.seq + 1, 0) \in c2s'
          /\ base' = initial_seq_num + 1
          /\ next_seq_num' = initial_seq_num + 1]_vars

\* C17, its case: the client has become ESTABLISHED with
\* base = next_seq_num = iss_c + 1 and its ACK is on the way.
C17_Connected ==
  /\ state = ESTABLISHED
  /\ mt.pc = "sd_start"
  /\ base = initial_seq_num + 1
  /\ next_seq_num = initial_seq_num + 1
  /\ Pkt(ACK, initial_seq_num + 1, ack_num, 0) \in c2s

\* C18: disconnect() of an ESTABLISHED client sends FIN(seq = next_seq_num)
\* and, whatever its recvfrom returns (FIN|ACK, another datagram, a timeout),
\* it is left with state CLOSED.
C18_Disconnect ==
  [][/\ (mt.pc = "disc" /\ state = ESTABLISHED /\ mt' # mt) =>
          /\ mt'.pc = "disc_wait"
          /\ Pkt(FIN, next_seq_num, ack_num, 0) \in c2s'
     /\ (mt.pc = "disc_wait" /\ mt'.pc # "disc_wait") => state' = CLOSED
    ]_vars

\* C18, its case: disconnect() has ended after its recvfrom timed out or
\* returned a datagram that is not FIN|ACK.
C18_ClosedWithoutFinAck ==
  /\ mt.pc = "stats"
  /\ state = CLOSED
  /\ ~mt.fin_acked

\* C19: send_data returns in the end, whatever is lost: the admission loop
\* is never left with packets still to admit, send_packet refusing, no packet
\* outstanding (all were abandoned) and no datagram to arrive any more, a
\* state from which no step of the client changes base or next_seq_num.
C19_SendDataReturns ==
  ~(/\ mt.pc = "sd_loop"
    /\ mt.packet_id <= expected_packets
    /\ WindowFull
    /\ packets = Empty
    /\ ~LinkUp
    /\ outage.to > MaxTicks)

\* C20: base, next_seq_num, the three maps, the RTT samples and the timeout
\* are written only under the lock: while the receiver thread holds it inside
\* handle_ack, no step of the main thread changes any of them.
C20_Serialized ==
  [][(lock = "recv" /\ rt' = rt) =>
       UNCHANGED <<base, next_seq_num, packets, packet_times,
                   retransmit_count, rtt_list, timeout_interval>>]_vars

\* C21: the drop decision bears only on DATA that is in order and from a peer
\* in ESTABLISHED: a dropped datagram is answered by nothing and changes no
\* connection; out-of-order DATA is answered by the duplicate ACK whatever the
\* draw, every SYN by SYN|ACK and every FIN of a known peer by FIN|ACK, and
\* the handling of every other DATA datagram is the same for every draw.
C21_DropDecision ==
  [][/\ \A d \in c2s, r \in RandomDraws :
          ServerDataOn(d, r) =>
            IF Known /\ connections[Peer].state = SrvESTABLISHED
            THEN IF d.seq = connections[Peer].ack_num
                 THEN ShouldDrop(r) => UNCHANGED <<connections, s2c>>
                 ELSE /\ s2c' = s2c \cup {Pkt(ACK, connections[Peer].seq_num,
                                              connections[Peer].ack_num, 0)}
                      /\ UNCHANGED connections
            ELSE \A r2 \in RandomDraws : ServerDataOn(d, r2)
     /\ \A d \in c2s, iss \in ServerISNs :
          ServerSynOn(d, iss) => Pkt(SYN + ACK, iss, d.seq + 1, 0) \in s2c'
     /\ \A d \in c2s :
          (ServerFinOn(d) /\ Known) =>
            Pkt(FIN + ACK, connections[Peer].seq_num, d.seq + 1, 0) \in s2c'
     /\ \A d \in c2s :
          (ServerAckOn(d) /\ Known /\ connections[Peer].state = SrvSYN_RECEIVED
             /\ d.ack = connections[Peer].seq_num + 1) =>
            connections'[Peer].state = SrvESTABLISHED]_vars

\* C21, its case: in-order DATA is in flight to a peer in ESTABLISHED of a
\* server that drops, out-of-order DATA having been answered before; the
\* dropping step leaves this state as it is.
C21_DropPossible ==
  /\ Known
  /\ connections[Peer].state = SrvESTABLISHED
  /\ connections[Peer].ack_num = 1001
  /\ c2s = {Pkt(DATA, 1001, 0, MinData)}
  /\ Pkt(ACK, connections[Peer].seq_num, 1001, 0) \in s2c
  /\ \E r \in RandomDraws : ShouldDrop(r)

\* C22: in the teardown, once the server's FIN|ACK (the only datagram that
\* acknowledges next_seq_num + 1) has been taken from the client's socket, by
\* whichever thread, the client does not become CLOSED without having sent
\* the final ACK(next_seq_num + 1, iss_s + 1).
C22_FinalAck ==
  [][(/\ mt.pc = "disc_wait"
      /\ state' = CLOSED
      /\ \/ rt.pc = "ha_enter" /\ rt.ack = next_seq_num + 1
         \/ mt'.fin_acked) =>
       \E d \in s2c :
         /\ HasFlag(d.flags, FIN) /\ HasFlag(d.flags, ACK)
         /\ Pkt(ACK, next_seq_num + 1, d.seq + 1, 0) \in c2s']_vars

\* C22, its case: disconnect() has read the FIN|ACK itself and sent the final
\* ACK before the state became CLOSED.
C22_FinalAckSent ==
  /\ mt.pc = "stats"
  /\ mt.fin_acked
  /\ state = CLOSED
  /\ Pkt(ACK, next_seq_num + 1, ack_num, 0) \in c2s

\* C23: the receiver thread ends only when it finds the state no longer
\* ESTABLISHED or when its recvfrom fails with a socket error; while the state
\* is ESTABLISHED nothing else ends it.
C23_ReceiverRuns ==
  [][(rt.pc # "r_done" /\ rt'.pc = "r_done") =>
       \/ state # ESTABLISHED
       \/ rt'.error = "OSError"]_vars

\* C23, its case: the receiver thread has ended at its loop test after
\* disconnect() set the state to CLOSED.
C23_EndedAfterClose ==
  /\ rt.pc = "r_done"
  /\ rt.error = "none"
  /\ state = CLOSED
  /\ mt.pc = "stats"

\* C24: once print_statistics has counted, in a run that admitted all its
\* packets, failed_packets + success_packets is the number of packets
\* admitted, also when packets were abandoned.
C24_Statistics ==
  (/\ mt.pc \in {"closing", "closed", "done"}
   /\ mt.error = "none"
   /\ mt.packet_id > expected_packets) =>
    /\ total_packets = expected_packets
    /\ mt.failed_count + mt.success_count = total_packets

\* C24, its case: the statistics of a run without an abandoned packet add up.
C24_AllCounted ==
  /\ mt.pc = "closing"
  /\ mt.error = "none"
  /\ mt.packet_id > expected_packets
  /\ mt.abandoned = 0
  /\ mt.failed_count + mt.success_count = expected_packets

\* C25: against a server with drop_rate 0, once send_data has returned with
\* every datagram sent delivered and every ACK handled, no packet was
\* retransmitted, there is one RTT sample per packet, and
\* base = next_seq_num = iss_c + 1 + total_bytes_sent.
C25_LosslessRun ==
  (/\ mt.pc = "disc"
   /\ drop_rate = 0
   /\ c2s = {}
   /\ s2c = {}
   /\ rt.pc \in {"r_loop", "r_recv"}) =>
    /\ retransmitted_packets = 0
    /\ Len(rtt_list) = expected_packets
    /\ base = next_seq_num
    /\ next_seq_num = initial_seq_num + 1 + total_bytes_sent

\* C25, amended: against a server with drop_rate 0, when every datagram is
\* delivered once, DATA in the order sent, and every packet is acknowledged
\* and retired within MaxRtt ticks, no scan of retransmit_packets finds a
\* packet timed out, neither thread fails, and once send_data has returned
\* and handle_ack is over no packet was retransmitted, there is one RTT
\* sample per packet and base = next_seq_num = iss_c + 1 + total_bytes_sent.
C25_PromptRun ==
  Prompt =>
    /\ mt.pc \notin {"rt_loop", "rt_fail", "closing"}
    /\ rt.pc # "r_done"
    /\ (mt.pc = "disc" /\ lock = "free") =>
         /\ retransmitted_packets = 0
         /\ Len(rtt_list) = expected_packets
         /\ total_packets = expected_packets
         /\ packets = Empty
         /\ base = next_seq_num
         /\ next_seq_num = initial_seq_num + 1 + total_bytes_sent

\* C25, its case: send_data has returned after PromptPackets packets, one of
\* them acknowledged a tick after it was sent.
C25_TransferDone ==
  /\ Prompt
  /\ mt.pc = "disc"
  /\ lock = "free"
  /\ Len(rtt_list) = PromptPackets
  /\ \E i \in 1..Len(rtt_list) : rtt_list[i] >= TickLen

\* C26: when connect()'s recvfrom times out or returns a datagram that is
\* malformed or lacks SYN or ACK, connect() fails; after a failed connect()
\* the state is CLOSED and the one SYN is all the client has sent or will
\* send: no DATA, no FIN.
C26_ConnectFailure ==
  [][LET Failed == mt'.pc \in {"closing", "closed", "done"} /\ rt'.pc = "idle"
     IN  /\ \A d \in s2c :
              (/\ ConnectRecvOn(d)
               /\ \/ IsShort(d)
                  \/ ~(HasFlag(d.flags, SYN) /\ HasFlag(d.flags, ACK))) =>
                Failed
         /\ ConnectTimeout => Failed
         /\ Failed =>
              /\ state' = CLOSED
              /\ c2s' = {Pkt(SYN, initial_seq_num, 0, 0)}
              /\ total_packets' = 0
              /\ tx' = Empty]_vars

\* C26, its case: run() has ended after a connect() that found no SYN|ACK,
\* with a malformed datagram and an ACK without SYN at its socket.
C26_Failed ==
  /\ mt.pc = "done"
  /\ rt.pc = "idle"
  /\ s2c = {ShortDatagram, Pkt(ACK, 1000, 1001, 0)}

\* C27: on every connection, whatever the other connections do, the server
\* sends Agree (type 2, length 0) only once it has received the client's
\* Initialization, every other message it sends is a ReverseAnswer of the
\* length of the request it answers that carries that request's payload
\* reversed, it answers at most chunk_count requests, and the client sends
\* ReverseRequest i + 1 only after it has received ReverseAnswer i whole; a
\* step of one connection changes nothing of another.
C27_RrpcOrder ==
  [][\A c \in Conns :
       LET s == rrpc[c]
           t == rrpc'[c]
           sent == SubSeq(t.down, Len(s.down) + 1, Len(t.down))
           asked == SubSeq(t.up, Len(s.up) + 1, Len(t.up))
       IN  /\ Len(t.down) > Len(s.down) =>
                \/ /\ sent = RrHeader(Agree, 0)
                   /\ s.served = 0
                   /\ s.cpc # "chunking"
                   /\ s.chunks_num = Len(s.chunks)
                   /\ s.spc = "agree"
                \/ /\ s.served < s.chunks_num
                   /\ t.served = s.served + 1
                   /\ sent = RrHeader(ReverseAnswer,
                                      Len(s.chunks[t.served]))
                               \o Reverse(s.chunks[t.served])
                   /\ s.i = t.served
           /\ (Len(t.up) > Len(s.up) /\ s.cpc # "chunking") =>
                /\ asked = RrHeader(ReverseRequest, Len(s.chunks[s.i]))
                             \o s.chunks[s.i]
                /\ Len(s.reversed_chunks) = s.i - 1
                /\ s.served = s.i - 1
                /\ s.down = <<>>
           /\ t.served <= t.chunks_num
           /\ t # s => \A o \in Conns \ {c} : rrpc'[o] = rrpc[o]]_vars

\* C27, its case: two connections are served at the same time, and on each
\* the first of several requests has been answered and the second is on its
\* way to the server.
C27_TwoClientsServed ==
  \A c \in Conns :
    /\ rrpc[c].served = 1
    /\ rrpc[c].chunks_num >= 2
    /\ rrpc[c].i = 2
    /\ rrpc[c].up # <<>>
    /\ ~rrpc[c].sclosed

C29_Agreement ==
  [][/\ (Known' /\ connections'[Peer].state = SrvESTABLISHED) =>
          /\ base' <= connections'[Peer].ack_num
          /\ connections'[Peer].ack_num <= next_seq_num'
     /\ (/\ Known /\ connections[Peer].state = SrvESTABLISHED
         /\ Known' /\ connections'[Peer].state = SrvESTABLISHED) =>
          connections'[Peer].ack_num >= connections[Peer].ack_num]_vars

\* C30: whenever the main thread is outside send_packet and
\* retransmit_packets and the receiver thread is outside handle_ack, the
\* maps packets, packet_times and retransmit_count have the same keys.
C30_SameKeys ==
  (/\ mt.pc \notin {"rt_begin", "rt_scan", "rt_loop", "rt_read", "rt_count",
                    "rt_send", "rt_inc", "rt_fail", "rt_del"}
   /\ rt.pc \notin {"ha_enter", "ha_iter", "ha_del"}) =>
    /\ DOMAIN packet_times = DOMAIN packets
    /\ DOMAIN retransmit_count = DOMAIN packets

\* C31: a peer the server holds in ESTABLISHED stays in ESTABLISHED with the
\* same server sequence number until the server reads its FIN, and its
\* expected number is changed by DATA only: a SYN or an ACK read from that
\* peer changes neither its state nor its two numbers.
C31_EstablishedKept ==
  [][\A d \in c2s :
       (/\ c2s' = c2s
        /\ Known
        /\ connections[Peer].state = SrvESTABLISHED
        /\ HasFlag(d.flags, SYN) \/ HasFlag(d.flags, ACK)
             \/ HasFlag(d.flags, DATA) \/ ~HasFlag(d.flags, FIN)) =>
         /\ Known'
         /\ connections'[Peer].state = SrvESTABLISHED
         /\ connections'[Peer].seq_num = connections[Peer].seq_num
         /\ (HasFlag(d.flags, SYN) \/ HasFlag(d.flags, ACK)) =>
              connections'[Peer].ack_num = connections[Peer].ack_num]_vars

\* C31, its case: the SYN arrives once more at the server, which holds the
\* peer in ESTABLISHED and has accepted a packet from it.
C31_SynOnEstablished ==
  /\ Known
  /\ connections[Peer].state = SrvESTABLISHED
  /\ connections[Peer].ack_num = 1001 + MinData
  /\ c2s = {Pkt(SYN, 1000, 0, 0)}

====
